---- MODULE Spec2Model ----
(***************************************************************************)
(* Model of the npg_sentry token model (lib/model.js): createToken,        *)
(* revokeToken, listTokens, validateToken and validateUser, run as         *)
(* promise chains against two MongoDB collections (tokens, users).         *)
(*                                                                         *)
(* Every call is a chain of asynchronous steps; one action of the model    *)
(* is one callback of the chain, i.e. one answer of the database or of     *)
(* the random source together with all the synchronous code that follows   *)
(* it.  Calls in different slots interleave between those answers.         *)
(*                                                                         *)
(* Strings on which the code looks at characters (user, token,             *)
(* justification) are sequences of one-character strings, so that trim()   *)
(* and the base64 encoding are computed.  Times are milliseconds.          *)
(***************************************************************************)
EXTENDS Integers, Sequences, FiniteSets, TLC

VARIABLES
  tokens,   \* the tokens collection, in insertion order
  users,    \* the users collection, in insertion order
  now,      \* the wall clock, ms
  topology, \* "destroyed" once the connection to the database is lost
  alive,    \* FALSE once the node process died of an uncaught exception
  op,       \* op[c]:  the exported function call slot c runs
  arg,      \* arg[c]: its arguments
  pc,       \* pc[c]:  the asynchronous answer the call is waiting for
  loc,      \* loc[c]: what its closures have captured so far
  ret       \* ret[c]: the state of the promise it returned

vars == <<tokens, users, topology, now, alive, op, arg, pc, loc, ret>>

(***************************************************************************)
(* Bounds of the model.                                                    *)
(***************************************************************************)
MaxTokens == 2    \* documents in the tokens collection
MaxWrites == 3    \* hist entries in the tokens collection, all documents together

\* The two clients of the service.  Each has one call in flight at a time;
\* the calls of the two interleave at every asynchronous answer.
Calls == {1, 2}

(***************************************************************************)
(* lib/constants.js                                                        *)
(***************************************************************************)
TOKEN_STATUS_VALID   == "valid"
TOKEN_STATUS_REVOKED == "revoked"
TOKEN_DURATION       == 7
TOKEN_DURATION_UNIT  == 24 * 60 * 60 * 1000          \* 'days', in ms
UNEXPECTED_NUM_DOCS  == "UNEXPECTED_NUM_DOCS"
USER_NOT_TOKEN_OWNER == "USER_NOT_TOKEN_OWNER"

(***************************************************************************)
(* JavaScript values handed to the exported functions.                     *)
(***************************************************************************)
JsString(s) == [kind |-> "string",    val |-> s]
JsArray(a)  == [kind |-> "array",     val |-> a]
JsNumber(d) == [kind |-> "number",    val |-> d]     \* d: its decimal digits
Undefined   == [kind |-> "undefined", val |-> <<>>]

\* typeof value
TypeOf(value) == IF value.kind = "array" THEN "object" ELSE value.kind

\* the truthiness assert(value) tests
Truthy(value) ==
  CASE value.kind = "undefined" -> FALSE
    [] value.kind = "string"    -> value.val # <<>>
    [] value.kind = "number"    -> value.val # <<"0">>
    [] OTHER                    -> TRUE

WhiteSpace == {" ", "\t", "\n"}

RECURSIVE TrimLeft(_)
TrimLeft(s) ==
  IF s # <<>> /\ Head(s) \in WhiteSpace THEN TrimLeft(Tail(s)) ELSE s

RECURSIVE TrimRight(_)
TrimRight(s) ==
  IF s # <<>> /\ s[Len(s)] \in WhiteSpace
    THEN TrimRight(SubSeq(s, 1, Len(s) - 1))
    ELSE s

\* String.prototype.trim
Trim(s) == TrimRight(TrimLeft(s))

\* _validate does not throw.  type = "" stands for a call without type.
_validate(value, type) ==
  /\ Truthy(value)
  /\ (type # "" => TypeOf(value) = type)

\* mutant: the test of the trimmed string is left out
_validateNoTrim(value, type) == _validate(value, type)

\* _validateNoEmptyString does not throw
_validateNoEmptyString(value, type) ==
  /\ _validate(value, type)
  /\ Trim(value.val) # <<>>

\* groups instanceof Array
InstanceOfArray(value) == value.kind = "array"

(***************************************************************************)
(* Time: moment(), moment#format, moment#add, moment#isAfter.              *)
(***************************************************************************)
\* moment#format() prints 'YYYY-MM-DDTHH:mm:ssZ': the milliseconds are
\* dropped.  A formatted time is kept as the ms value it parses back to.
Format(t) == t - (t % 1000)

\* moment.duration(TOKEN_DURATION, TOKEN_DURATION_UNIT), in ms
ValidDuration == TOKEN_DURATION * TOKEN_DURATION_UNIT

\* mutant: the comparison the other way round
IsBefore(t, formatted) == t < formatted

\* mutant: isSameOrAfter, the instant of expiry itself counts as after
IsSameOrAfter(t, formatted) == t >= formatted

\* now.isAfter(formatted)
IsAfter(t, formatted) == t > formatted

(***************************************************************************)
(* generateTokenPromise: Buffer#toString('base64') and the two replaces.   *)
(***************************************************************************)
Base64Alphabet ==
  << "A","B","C","D","E","F","G","H","I","J","K","L","M",
     "N","O","P","Q","R","S","T","U","V","W","X","Y","Z",
     "a","b","c","d","e","f","g","h","i","j","k","l","m",
     "n","o","p","q","r","s","t","u","v","w","x","y","z",
     "0","1","2","3","4","5","6","7","8","9","+","/" >>

Sextet(n) == Base64Alphabet[n + 1]

\* buf.toString('base64')
RECURSIVE Base64(_)
Base64(buf) ==
  CASE Len(buf) = 0 -> <<>>
    [] Len(buf) = 1 ->
         << Sextet(buf[1] \div 4), Sextet((buf[1] % 4) * 16), "=", "=" >>
    [] Len(buf) = 2 ->
         << Sextet(buf[1] \div 4),
            Sextet((buf[1] % 4) * 16 + buf[2] \div 16),
            Sextet((buf[2] % 16) * 4), "=" >>
    [] OTHER ->
         << Sextet(buf[1] \div 4),
            Sextet((buf[1] % 4) * 16 + buf[2] \div 16),
            Sextet((buf[2] % 16) * 4 + buf[3] \div 64),
            Sextet(buf[3] % 64) >> \o Base64(SubSeq(buf, 4, Len(buf)))

\* s.replace(/from/g, to), from a single character
ReplaceAll(s, from, to) == [i \in 1..Len(s) |-> IF s[i] = from THEN to ELSE s[i]]

\* the number of bytes asked of crypto.randomBytes
TokenBytes == 24

\* mutant: the '+' of base64 is left in the token
EncodeTokenPlus(buf) == ReplaceAll(Base64(buf), "/", "_")

\* the string generateTokenPromise resolves with, for the bytes buf
EncodeToken(buf) == ReplaceAll(ReplaceAll(Base64(buf), "/", "_"), "+", "-")

\* The buffers crypto.randomBytes answers with in the model: one whose
\* sextets are 62 and 63 ('+' and '/') in turn, and a mixed one.
RandomBuffers ==
  { [i \in 1..TokenBytes |-> IF i % 3 = 1 THEN 251 ELSE IF i % 3 = 2 THEN 255 ELSE 191],
    [i \in 1..TokenBytes |-> (i * 37 + 11) % 256] }

(***************************************************************************)
(* The MongoDB collections.  A collection is the sequence of its            *)
(* documents in insertion order; a query answers in that order.            *)
(***************************************************************************)
\* the documents collection.find({field: value}) selects
Find(collection, field, value) ==
  SelectSeq(collection, LAMBDA d : d[field] = value)

\* mutant: the count stops at the first document (a limit of 1)
CursorCountLimited(collection, field, value) ==
  IF Find(collection, field, value) = <<>> THEN 0 ELSE 1

\* mutant: the count ignores the query and counts the collection
CursorCountAll(collection, field, value) == Len(collection)

\* cursor.count()
CursorCount(collection, field, value) == Len(Find(collection, field, value))

\* a document of the collection is missing
Null == [null |-> TRUE]
IsNull(doc) == "null" \in DOMAIN doc

\* cursor.next() on a fresh cursor: the first document, or null
CursorNext(collection, field, value) ==
  IF Find(collection, field, value) = <<>>
    THEN Null
    ELSE Head(Find(collection, field, value))

\* collection.insertOne(doc): the driver gives doc its _id, the server
\* appends it
WithId(doc, id) ==
  [_id |-> id, token |-> doc.token, status |-> doc.status, hist |-> doc.hist,
   user |-> doc.user, expiryTime |-> doc.expiryTime]

\* mutant: an upsert on the token, the records of the same token are replaced
InsertOneUpsert(collection, doc) ==
  IF \E i \in 1..Len(collection) : collection[i].token = doc.token
    THEN [i \in 1..Len(collection) |->
            IF collection[i].token = doc.token
              THEN WithId(doc, i)
              ELSE collection[i]]
    ELSE Append(collection, WithId(doc, Len(collection) + 1))

InsertOne(collection, doc) ==
  Append(collection, WithId(doc, Len(collection) + 1))

\* the position of the first document with this token, 0 when there is none
FirstIndex(collection, token) ==
  IF \E i \in 1..Len(collection) : collection[i].token = token
    THEN CHOOSE i \in 1..Len(collection) :
           /\ collection[i].token = token
           /\ \A j \in 1..(i - 1) : collection[j].token # token
    ELSE 0

\* mutant: the update also moves expiryTime to the time of the revocation
ApplyUpdateExpire(doc, update) ==
  [doc EXCEPT !.status     = update.set.status,
              !.hist       = Append(@, update.push.hist),
              !.expiryTime = update.push.hist.time]

\* mutant: the entry replaces hist ($set where $push was meant)
ApplyUpdateSet(doc, update) ==
  [doc EXCEPT !.status = update.set.status,
              !.hist   = <<update.push.hist>>]

\* update = {$set: {status}, $push: {hist}} applied to one document
ApplyUpdate(doc, update) ==
  [doc EXCEPT !.status = update.set.status,
              !.hist   = Append(@, update.push.hist)]

\* mutant: findOneAndDelete, the record is removed
FindOneAndDelete(collection, token, update) ==
  SelectSeq(collection, LAMBDA d : d.token # token)

\* mutant: the update goes to the last document with the token, not the
\* first
FindOneAndUpdateLast(collection, token, update) ==
  IF FirstIndex(collection, token) = 0
    THEN collection
    ELSE LET last == CHOOSE i \in 1..Len(collection) :
                       /\ collection[i].token = token
                       /\ \A j \in (i + 1)..Len(collection) :
                            collection[j].token # token
         IN [collection EXCEPT ![last] = ApplyUpdate(@, update)]

\* mutant: the update is conditional on the status still being valid
FindOneAndUpdateIfValid(collection, token, update) ==
  IF FirstIndex(collection, token) = 0
       \/ collection[FirstIndex(collection, token)].status # TOKEN_STATUS_VALID
    THEN collection
    ELSE [collection EXCEPT ![FirstIndex(collection, token)] =
            ApplyUpdate(@, update)]

\* collection.findOneAndUpdate({token}, update, {returnOriginal: false}):
\* the collection afterwards
FindOneAndUpdate(collection, token, update) ==
  IF FirstIndex(collection, token) = 0
    THEN collection
    ELSE [collection EXCEPT ![FirstIndex(collection, token)] =
            ApplyUpdate(@, update)]

\* mutant: returnOriginal left at its default, the document before the update
UpdatedValueOriginal(collection, token, update) ==
  IF FirstIndex(collection, token) = 0
    THEN Null
    ELSE collection[FirstIndex(collection, token)]

\* ... and updateRes.value: the document after the update, or null
UpdatedValue(collection, token, update) ==
  IF FirstIndex(collection, token) = 0
    THEN Null
    ELSE ApplyUpdate(collection[FirstIndex(collection, token)], update)

(***************************************************************************)
(* Promises.                                                               *)
(*                                                                         *)
(* The fields of every record of this module are written in the order in   *)
(* which TLC keeps them (that of the first mention of each name in the     *)
(* module), so that TLC never has to reorder a record that its worker      *)
(* threads share.                                                          *)
(***************************************************************************)
Pending         == [state |-> "pending"]
Resolved(value) == [value |-> value, state |-> "resolved"]
Rejected(error) == [state |-> "rejected", error |-> error]

IsResolved(p) == p.state = "resolved"
IsRejected(p) == p.state = "rejected"

NoLocals == [none |-> TRUE]

\* the call in slot c settles with promise p
Settle(c, p) ==
  /\ pc'  = [pc  EXCEPT ![c] = "done"]
  /\ ret' = [ret EXCEPT ![c] = p]

\* the call in slot c goes on to wait for the answer named step
Await(c, step, locals) ==
  /\ pc'  = [pc  EXCEPT ![c] = step]
  /\ loc' = [loc EXCEPT ![c] = locals]
  /\ UNCHANGED ret

\* a new call starts in slot c: its arguments pass (ok) or an assert threw
Begin(c, name, args, ok, step, locals) ==
  /\ alive
  /\ pc[c] \in {"idle", "done"}
  /\ op'  = [op  EXCEPT ![c] = name]
  /\ arg' = [arg EXCEPT ![c] = args]
  /\ loc' = [loc EXCEPT ![c] = IF ok THEN locals ELSE NoLocals]
  /\ pc'  = [pc  EXCEPT ![c] = IF ok THEN step ELSE "done"]
  /\ ret' = [ret EXCEPT ![c] = IF ok THEN Pending ELSE Rejected("AssertionError")]
  /\ UNCHANGED <<tokens, users, topology, now, alive>>

(***************************************************************************)
(* The values calls are made with, and the states of the world.            *)
(***************************************************************************)
U1 == <<"u", "1">>
U2 == <<"u", "2">>

\* app.js: the justifications the routes pass to createToken and revokeToken
creation_msg ==
  << "C", "r", "e", "a", "t", "e", "d", " ", "b", "y", " ", "o", "w", "n",
     "e", "r", " ", "v", "i", "a", " ", "w", "e", "b", " ", "i", "n", "t",
     "e", "r", "f", "a", "c", "e" >>

revocation_msg ==
  << "R", "e", "v", "o", "k", "e", "d", " ", "b", "y", " ", "o", "w", "n",
     "e", "r", " ", "v", "i", "a", " ", "w", "e", "b", " ", "i", "n", "t",
     "e", "r", "f", "a", "c", "e" >>

\* the tokens generateTokenPromise can answer with
Generated == {EncodeToken(buf) : buf \in RandomBuffers}

\* well-formed arguments
GoodUsers  == {JsString(U1), JsString(U2)}
GoodTokens == {JsString(token) : token \in Generated}
GoodGroups == {JsArray(<<>>), JsArray(<<"g1", "g5">>), JsArray(<<"g1", "G5">>)}

\* missing, not a string, empty, or blank: what the argument checks are
\* there for
BadStrings == {Undefined, JsNumber(<<"7">>), JsString(<<>>), JsString(<<" ">>)}
\* missing, or not an array
BadGroups  == {Undefined, JsString(<<"g", "1">>)}

\* the users collection the directory scripts may have left
Directories ==
  { << [_id |-> 1, user |-> U1, groups |-> <<"g5", "g2", "g1">>],
       [_id |-> 2, user |-> U2] >>,
    << [_id |-> 1, user |-> U1, groups |-> <<>>],
       [_id |-> 2, user |-> U2, groups |-> <<"g1">>],
       [_id |-> 3, user |-> U2, groups |-> <<"g1", "g5">>] >> }

\* the instants the clock shows
Instants == {500, ValidDuration, ValidDuration + 500}

Idle ==
  /\ tokens = <<>>
  /\ topology = "connected"
  /\ now = 500
  /\ alive = TRUE
  /\ op  = [c \in Calls |-> "none"]
  /\ arg = [c \in Calls |-> NoLocals]
  /\ pc  = [c \in Calls |-> "idle"]
  /\ loc = [c \in Calls |-> NoLocals]
  /\ ret = [c \in Calls |-> Pending]

Init == Idle /\ users \in Directories

\* the same, with the users collection in which every user has one record
InitOneEach ==
  Idle /\ users \in {d \in Directories :
                      \A i, j \in 1..Len(d) : d[i].user = d[j].user => i = j}

\* time passes
Tick ==
  /\ alive
  /\ \E t \in Instants : t > now /\ now' = t
  /\ UNCHANGED <<tokens, users, topology, alive, op, arg, pc, loc, ret>>

(***************************************************************************)
(* createToken                                                             *)
(***************************************************************************)
\* the calls that are still to insert a document
Inserting == {c \in Calls : op[c] = "createToken" /\ pc[c] \in {"randomBytes", "insertOne"}}

\* the calls that are still to push a hist entry
Revoking ==
  {c \in Calls : op[c] = "revokeToken" /\ pc[c] \in {"count", "next", "findOneAndUpdate"}}

\* the hist entries of a collection
RECURSIVE HistEntries(_)
HistEntries(collection) ==
  IF collection = <<>> THEN 0
  ELSE Len(Head(collection).hist) + HistEntries(Tail(collection))

\* the model has room for one more write by a call in slot c
RoomToWrite(c) ==
  HistEntries(tokens) + Cardinality((Inserting \cup Revoking) \ {c}) < MaxWrites

\* mutant: the record is built with the wrong status constant
_buildTokenRevoked(token, user, justification, t) ==
  [token      |-> token,
   status     |-> TOKEN_STATUS_REVOKED,
   hist       |-> <<[time |-> Format(t), reason |-> justification]>>,
   user       |-> user,
   expiryTime |-> Format(t + ValidDuration)]

_buildToken(token, user, justification, t) ==
  [token      |-> token,
   status     |-> TOKEN_STATUS_VALID,
   hist       |-> <<[time |-> Format(t), reason |-> justification]>>,
   user       |-> user,
   expiryTime |-> Format(t + ValidDuration)]

\* createToken(user, justification) up to the call of randomBytes
CreateToken(c, user, justification) ==
  /\ Len(tokens) + Cardinality(Inserting \ {c}) < MaxTokens
  /\ RoomToWrite(c)
  /\ Begin(c, "createToken", [user |-> user, justification |-> justification],
           /\ _validateNoEmptyString(user, "string")
           /\ _validateNoEmptyString(justification, "string"),
           "randomBytes", NoLocals)

\* randomBytes answers with buf: the token is encoded, the document built
\* and handed to insertOne
GenerateToken(c) ==
  /\ alive
  /\ pc[c] = "randomBytes"
  /\ \E buf \in RandomBuffers :
       Await(c, "insertOne",
             [doc |-> _buildToken(EncodeToken(buf), arg[c].user.val,
                                  arg[c].justification.val, now)])
  /\ UNCHANGED <<tokens, users, topology, now, alive, op, arg>>

\* randomBytes answers with err: reject(err) is called, and then
\* buf.toString throws on the undefined buf, inside the callback of
\* randomBytes where nothing catches it: the process dies
GenerateTokenError(c) ==
  /\ alive
  /\ pc[c] = "randomBytes"
  /\ alive' = FALSE
  /\ ret' = [ret EXCEPT ![c] = Rejected("RandomSourceError")]
  /\ UNCHANGED <<tokens, users, topology, now, op, arg, pc, loc>>

\* insertOne answers
InsertDone(c) ==
  /\ alive
  /\ topology = "connected"
  /\ pc[c] = "insertOne"
  /\ tokens' = InsertOne(tokens, loc[c].doc)
  /\ Settle(c, Resolved(WithId(loc[c].doc, Len(tokens) + 1)))
  /\ UNCHANGED <<users, topology, now, alive, op, arg, loc>>

(***************************************************************************)
(* revokeToken                                                             *)
(***************************************************************************)
\* revokeToken(user, token, justification) up to the first query
RevokeToken(c, user, token, justification) ==
  /\ RoomToWrite(c)
  /\ Begin(c, "revokeToken",
           [token |-> token, user |-> user, justification |-> justification],
           /\ _validateNoEmptyString(user, "string")
           /\ _validateNoEmptyString(token, "string")
           /\ _validateNoEmptyString(justification, "string"),
           "count", NoLocals)

\* cursor.count() answers: cursorHasExactlyOneDoc
RevokeCount(c) ==
  /\ alive
  /\ topology = "connected"
  /\ op[c] = "revokeToken" /\ pc[c] = "count"
  /\ IF CursorCount(tokens, "token", arg[c].token.val) = 1
       THEN Await(c, "next", NoLocals)
       ELSE Settle(c, Rejected(UNEXPECTED_NUM_DOCS)) /\ UNCHANGED loc
  /\ UNCHANGED <<tokens, users, topology, now, alive, op, arg>>

\* the update document revokeToken builds
RevokeUpdate(justification, t) ==
  [set  |-> [status |-> TOKEN_STATUS_REVOKED],
   push |-> [hist |-> [time |-> Format(t), reason |-> justification]]]

\* mutant: the owner is not checked
CorrectUserAnyone(user, doc) == TRUE

\* mutant: a record that is already revoked is refused
CorrectUserAndValid(user, doc) ==
  user = doc.user /\ doc.status = TOKEN_STATUS_VALID

\* user === doc.user
CorrectUser(user, doc) == user = doc.user

\* cursor.next() answers with the document: the owner is checked, the
\* update built and handed to findOneAndUpdate
RevokeNext(c) ==
  /\ alive
  /\ topology = "connected"
  /\ op[c] = "revokeToken" /\ pc[c] = "next"
  /\ LET doc == CursorNext(tokens, "token", arg[c].token.val) IN
       IF IsNull(doc)
         THEN Settle(c, Rejected("TypeError")) /\ UNCHANGED loc
         ELSE IF CorrectUser(arg[c].user.val, doc)
           THEN Await(c, "findOneAndUpdate",
                      [doc |-> doc,
                       update |-> RevokeUpdate(arg[c].justification.val, now)])
           ELSE Settle(c, Rejected(USER_NOT_TOKEN_OWNER)) /\ UNCHANGED loc
  /\ UNCHANGED <<tokens, users, topology, now, alive, op, arg>>

\* findOneAndUpdate answers: _updateToken
RevokeDone(c) ==
  /\ alive
  /\ topology = "connected"
  /\ op[c] = "revokeToken" /\ pc[c] = "findOneAndUpdate"
  /\ tokens' = FindOneAndUpdate(tokens, loc[c].doc.token, loc[c].update)
  /\ Settle(c, Resolved(UpdatedValue(tokens, loc[c].doc.token, loc[c].update)))
  /\ UNCHANGED <<users, topology, now, alive, op, arg, loc>>

(***************************************************************************)
(* listTokens                                                              *)
(***************************************************************************)
\* a < b for the two status strings, as JavaScript and MongoDB compare them
StringLess(a, b) == a = TOKEN_STATUS_REVOKED /\ b = TOKEN_STATUS_VALID

\* mutant: sort('status', 1), ascending
SortByStatusAscending(docs) ==
  { r \in { [i \in 1..Len(docs) |-> docs[p[i]]] : p \in Permutations(1..Len(docs)) } :
      \A i, j \in 1..Len(docs) : i < j => ~StringLess(r[j].status, r[i].status) }

\* cursor.sort('status', -1).toArray(): the documents by descending status,
\* documents of equal status in any order
SortByStatusDescending(docs) ==
  { r \in { [i \in 1..Len(docs) |-> docs[p[i]]] : p \in Permutations(1..Len(docs)) } :
      \A i, j \in 1..Len(docs) : i < j => ~StringLess(r[i].status, r[j].status) }

\* listTokens(user) up to the query
ListTokens(c, user) ==
  Begin(c, "listTokens", [user |-> user],
        Truthy(user) /\ TypeOf(user) = "string",
        "toArray", NoLocals)

\* mutant: the sort reorders the collection itself
ListDoneInPlace(c) ==
  /\ alive
  /\ topology = "connected"
  /\ op[c] = "listTokens" /\ pc[c] = "toArray"
  /\ \E docs \in SortByStatusDescending(tokens) :
       /\ tokens' = docs
       /\ Settle(c, Resolved(Find(docs, "user", arg[c].user.val)))
  /\ UNCHANGED <<users, topology, now, alive, op, arg, loc>>

\* toArray() answers
ListDone(c) ==
  /\ alive
  /\ topology = "connected"
  /\ op[c] = "listTokens" /\ pc[c] = "toArray"
  /\ \E docs \in SortByStatusDescending(Find(tokens, "user", arg[c].user.val)) :
       Settle(c, Resolved(docs))
  /\ UNCHANGED <<tokens, users, topology, now, alive, op, arg, loc>>

(***************************************************************************)
(* validateToken and validateUser                                          *)
(***************************************************************************)
\* the argument checks validateToken and validateUser share for groups
GroupsOk(groups) == _validate(groups, "") /\ InstanceOfArray(groups)

\* validateToken(groups, token) up to the first query
ValidateToken(c, groups, token) ==
  Begin(c, "validateToken", [token |-> token, groups |-> groups],
        GroupsOk(groups) /\ _validateNoEmptyString(token, "string"),
        "count", NoLocals)

\* cursor.count() answers: cursorHasExactlyOneDoc
ValidateCount(c) ==
  /\ alive
  /\ topology = "connected"
  /\ op[c] = "validateToken" /\ pc[c] = "count"
  /\ IF CursorCount(tokens, "token", arg[c].token.val) = 1
       THEN Await(c, "next", NoLocals)
       ELSE Settle(c, Rejected(UNEXPECTED_NUM_DOCS)) /\ UNCHANGED loc
  /\ UNCHANGED <<tokens, users, topology, now, alive, op, arg>>

\* doc.expiryTime && now.isAfter(doc.expiryTime)
\* (a formatted time is a non-empty string: it is falsy only when the
\* document has no such field)
HasExpiryTime(doc) == "expiryTime" \in DOMAIN doc

Expired(doc, t) == HasExpiryTime(doc) /\ IsAfter(t, doc.expiryTime)

\* mutant: the token is handed on in place of the user
UserToValidateToken(doc) == doc.token

\* the user validateToken hands to validateUser
UserToValidate(doc) == doc.user

\* mutant: the status of the document is not looked at, only its expiry
ValidateNextIgnoresStatus(c) ==
  /\ alive
  /\ topology = "connected"
  /\ op[c] = "validateToken" /\ pc[c] = "next"
  /\ LET doc == CursorNext(tokens, "token", arg[c].token.val) IN
       IF IsNull(doc)
         THEN Settle(c, Rejected("TypeError")) /\ UNCHANGED loc
         ELSE IF Expired(doc, now)
           THEN Settle(c, Resolved(FALSE)) /\ UNCHANGED loc
           ELSE Await(c, "userCount", [user |-> UserToValidate(doc)])
  /\ UNCHANGED <<tokens, users, topology, now, alive, op, arg>>

\* mutant: validateUser(groups, doc.user) is called for every document,
\* whatever its status and expiryTime
ValidateNextUserFirst(c) ==
  /\ alive
  /\ topology = "connected"
  /\ op[c] = "validateToken" /\ pc[c] = "next"
  /\ LET doc == CursorNext(tokens, "token", arg[c].token.val) IN
       IF IsNull(doc)
         THEN Settle(c, Rejected("TypeError")) /\ UNCHANGED loc
         ELSE Await(c, "userCount", [user |-> UserToValidate(doc)])
  /\ UNCHANGED <<tokens, users, topology, now, alive, op, arg>>

\* cursor.next() answers with the document: status and expiry are looked
\* at, then validateUser(groups, doc.user) runs up to its first query
ValidateNext(c) ==
  /\ alive
  /\ topology = "connected"
  /\ op[c] = "validateToken" /\ pc[c] = "next"
  /\ LET doc == CursorNext(tokens, "token", arg[c].token.val) IN
       IF IsNull(doc)
         THEN Settle(c, Rejected("TypeError")) /\ UNCHANGED loc
         ELSE IF doc.status = TOKEN_STATUS_REVOKED \/ Expired(doc, now)
           THEN Settle(c, Resolved(FALSE)) /\ UNCHANGED loc
           ELSE IF GroupsOk(arg[c].groups)
                     /\ _validateNoEmptyString(JsString(UserToValidate(doc)), "string")
             THEN Await(c, "userCount", [user |-> UserToValidate(doc)])
             ELSE Settle(c, Rejected("AssertionError")) /\ UNCHANGED loc
  /\ UNCHANGED <<tokens, users, topology, now, alive, op, arg>>

\* validateUser(groups, user), called from outside, up to its first query
ValidateUser(c, groups, user) ==
  Begin(c, "validateUser", [user |-> user, groups |-> groups],
        GroupsOk(groups) /\ _validateNoEmptyString(user, "string"),
        "userCount", [user |-> user.val])

\* cursor.count() on the users collection answers
UserCount(c) ==
  /\ alive
  /\ topology = "connected"
  /\ pc[c] = "userCount"
  /\ IF CursorCount(users, "user", loc[c].user) = 1
       THEN Await(c, "userNext", loc[c])
       ELSE Settle(c, Rejected(UNEXPECTED_NUM_DOCS)) /\ UNCHANGED loc
  /\ UNCHANGED <<tokens, users, topology, now, alive, op, arg>>

\* doc.groups, undefined when the document has no such field
HasGroups(doc) == "groups" \in DOMAIN doc

\* mutant: Array#some where Array#every was meant
MemberOfSome(groups, doc) ==
  IF "groups" \notin DOMAIN doc
    THEN FALSE
    ELSE \E k \in 1..Len(groups) :
           \E m \in 1..Len(doc.groups) : doc.groups[m] = groups[k]

\* what validateUser answers for the user document doc
MemberOfAll(groups, doc) ==
  IF ~HasGroups(doc)
    THEN FALSE
    ELSE \A k \in 1..Len(groups) :
           \E m \in 1..Len(doc.groups) : doc.groups[m] = groups[k]

\* cursor.next() on the users collection answers with the document
UserNext(c) ==
  /\ alive
  /\ topology = "connected"
  /\ pc[c] = "userNext"
  /\ LET doc == CursorNext(users, "user", loc[c].user) IN
       IF IsNull(doc)
         THEN Settle(c, Rejected("TypeError"))
         ELSE Settle(c, Resolved(MemberOfAll(arg[c].groups.val, doc)))
  /\ UNCHANGED <<tokens, users, topology, now, alive, op, arg, loc>>

(***************************************************************************)
(* The service: calls start in any free slot and interleave.               *)
(***************************************************************************)
\* a call of one of the five exported functions, its arguments drawn from
\* the given sets
Invoke(c, userArgs, tokenArgs, groupsArgs, createReasons, revokeReasons) ==
  \/ \E user \in userArgs, justification \in createReasons :
       CreateToken(c, user, justification)
  \/ \E user \in userArgs, token \in tokenArgs, justification \in revokeReasons :
       RevokeToken(c, user, token, justification)
  \/ \E user \in userArgs : ListTokens(c, user)
  \/ \E groups \in groupsArgs, token \in tokenArgs : ValidateToken(c, groups, token)
  \/ \E groups \in groupsArgs, user \in userArgs : ValidateUser(c, groups, user)

\* any call, well-formed or not
Start(c) ==
  Invoke(c, GoodUsers \cup BadStrings, GoodTokens \cup BadStrings,
         GoodGroups \cup BadGroups,
         {JsString(creation_msg), Undefined}, {JsString(revocation_msg), Undefined})

\* a well-formed call
StartGood(c) ==
  Invoke(c, GoodUsers, GoodTokens, GoodGroups,
         {JsString(creation_msg)}, {JsString(revocation_msg)})

\* a well-formed call, as the routes of app.js with a groups requirement make it
StartRoute(c) ==
  Invoke(c, GoodUsers, GoodTokens, {JsArray(<<"g1", "g5">>)},
         {JsString(creation_msg)}, {JsString(revocation_msg)})

Step(c) ==
  \/ GenerateToken(c)
  \/ GenerateTokenError(c)
  \/ InsertDone(c)
  \/ RevokeCount(c)
  \/ RevokeNext(c)
  \/ RevokeDone(c)
  \/ ListDone(c)
  \/ ValidateCount(c)
  \/ ValidateNext(c)
  \/ UserCount(c)
  \/ UserNext(c)

\* the answers of the driver a call can be waiting for
StoreCalls ==
  {"insertOne", "count", "next", "findOneAndUpdate", "toArray",
   "userCount", "userNext"}

\* mutant: the handler of createToken's catch logs the error and does not
\* reject again, the promise resolves with undefined
StoreFailsSwallowed(c) ==
  /\ alive
  /\ pc[c] \in StoreCalls
  /\ pc'  = [pc  EXCEPT ![c] = "done"]
  /\ ret' = [ret EXCEPT ![c] = IF op[c] = "createToken"
                                 THEN Resolved(Undefined)
                                 ELSE Rejected("MongoError")]
  /\ loc' = [loc EXCEPT ![c] = [failed |-> pc[c]]]
  /\ UNCHANGED <<tokens, users, topology, now, alive, op, arg>>

\* A call of the driver answers with an error in place of its result.  No
\* step of the chains handles it (createToken logs it and rejects with it
\* again): the promise of the call is rejected with it, nothing is retried,
\* and the collection is as the failed call found it.  The call that
\* failed is noted in the locals.
StoreFails(c) ==
  /\ alive
  /\ pc[c] \in StoreCalls
  /\ pc'  = [pc  EXCEPT ![c] = "done"]
  /\ ret' = [ret EXCEPT ![c] = Rejected("MongoError")]
  /\ loc' = [loc EXCEPT ![c] = [failed |-> pc[c]]]
  /\ UNCHANGED <<tokens, users, topology, now, alive, op, arg>>

\* one client making well-formed calls, one call at a time, while time passes
NextSeq == Tick \/ StartGood(1) \/ Step(1)

SpecSeq == Init /\ [][NextSeq]_vars

\* one client making any call, well-formed or not, one call at a time,
\* against a database whose calls may fail
NextArgs == Start(1) \/ Step(1) \/ StoreFails(1)

SpecArgs == InitOneEach /\ [][NextArgs]_vars

\* concurrent clients making well-formed calls at one instant
Next == \E c \in Calls : StartRoute(c) \/ Step(c)

Spec == InitOneEach /\ [][Next]_vars

(***************************************************************************)
(* The module loaded while the database cannot be reached.  p_db is        *)
(* settled once, when the module is loaded, and never replaced: in these   *)
(* behaviours it is rejected throughout, and p_collection with it.         *)
(***************************************************************************)
\* the error MongoClient.connect rejects with
FirstConnectError == "MongoError: failed to connect to server on first connect"

\* the steps at which a chain first asks for p_collection, or for p_db
NeedsConnection == {"insertOne", "count", "toArray", "userCount"}

\* mutant: listTokens answers the empty list when there is no collection
NoConnectionEmptyList(c) ==
  /\ alive
  /\ pc[c] \in NeedsConnection
  /\ Settle(c, IF op[c] = "listTokens" THEN Resolved(<<>>)
                                         ELSE Rejected(FirstConnectError))
  /\ UNCHANGED <<tokens, users, topology, now, alive, op, arg, loc>>

\* p_collection.then(...) or p_db.then(...) of a call: the promise is
\* rejected, the function given to then never runs, the chain is rejected
\* with the error of the connection
NoConnection(c) ==
  /\ alive
  /\ pc[c] \in NeedsConnection
  /\ Settle(c, Rejected(FirstConnectError))
  /\ UNCHANGED <<tokens, users, topology, now, alive, op, arg, loc>>

\* The handlers p_db.catch and p_collection.catch log the reason and throw
\* it again: the promises they return are rejected and nobody handles
\* them.  A runtime that ends the process on an unhandled rejection does
\* so before a request is served; others only warn.
UnhandledRejection ==
  /\ alive
  /\ \A c \in Calls : pc[c] = "idle"
  /\ alive' = FALSE
  /\ UNCHANGED <<tokens, users, topology, now, op, arg, pc, loc, ret>>

\* clients making well-formed calls while the database cannot be reached
NextDown ==
  \/ UnhandledRejection
  \/ \E c \in Calls :
       \/ StartGood(c)
       \/ GenerateToken(c)
       \/ GenerateTokenError(c)
       \/ NoConnection(c)

SpecDown == InitOneEach /\ [][NextDown]_vars

(***************************************************************************)
(* The web service of app.js: the routes call the model for one user, a    *)
(* resolved promise is answered by the handler given to then, a rejected   *)
(* promise or an exception of the route by the error-handling middleware.  *)
(***************************************************************************)
\* let user = 'an8@sanger.ac.uk': the user every route acts for
RouteUser == JsString(U1)

\* the message of a driver call made after the connection was lost
TopologyDestroyed == "MongoError: Topology was destroyed"

\* the errors whose message one of the patterns of connIsDeadErrs matches
connIsDeadErrs ==
  {"MongoError: server instance pool was destroyed", TopologyDestroyed,
   FirstConnectError}

\* err instanceof MongoError
InstanceOfMongoError(err) == err \in {"MongoError"} \cup connIsDeadErrs

\* connIsDeadErrs.some(err.message.match): some calls the function it is
\* given without a receiver, String.prototype.match throws a TypeError at
\* the first pattern, whatever the message; "true" and "false" are the
\* answers it would otherwise give
SomeMatch(err) == "TypeError"

\* a response of the server: status code and JSON body
Response(statusCode, body) ==
  [status |-> statusCode, state |-> "response", body |-> body]

IsResponse(p) == p.state = "response"

\* the body the error-handling middleware sends
InternalServerError == [status |-> 500, err |-> "Internal server error"]

\* POST /createToken
PostCreateToken(c) ==
  /\ pc[c] = "idle"
  /\ CreateToken(c, RouteUser, JsString(creation_msg))

\* POST /revokeToken, the body with or without a token
PostRevokeToken(c) ==
  /\ pc[c] = "idle"
  /\ \E token \in GoodTokens \cup {Undefined} :
       RevokeToken(c, RouteUser, token, JsString(revocation_msg))

\* GET /listTokens
GetListTokens(c) ==
  /\ pc[c] = "idle"
  /\ ListTokens(c, RouteUser)

\* the bodies of POST /checkToken
CheckTokenBodies ==
  { [token |-> token, groups |-> groups] :
      groups \in {JsArray(<<>>), JsArray(<<"g1", "g5">>)}, token \in GoodTokens }

\* POST /checkToken: model.checkToken is undefined, the module exports the
\* function as validateToken; calling it throws a TypeError in the route,
\* which express hands to the error-handling middleware
PostCheckToken(c) ==
  /\ alive
  /\ pc[c] = "idle"
  /\ \E body \in CheckTokenBodies :
       /\ op'  = [op  EXCEPT ![c] = "checkToken"]
       /\ arg' = [arg EXCEPT ![c] = body]
  /\ loc' = [loc EXCEPT ![c] = NoLocals]
  /\ Settle(c, Rejected("TypeError"))
  /\ UNCHANGED <<tokens, users, topology, now, alive>>

\* the connection to the database is lost
ConnectionLost ==
  /\ alive
  /\ topology = "connected"
  /\ topology' = "destroyed"
  /\ UNCHANGED <<tokens, users, now, alive, op, arg, pc, loc, ret>>

\* a call of the driver made on the lost connection answers with the
\* error of the topology, and the chain is rejected with it
TopologyError(c) ==
  /\ alive
  /\ topology = "destroyed"
  /\ pc[c] \in StoreCalls
  /\ loc' = [loc EXCEPT ![c] = [failed |-> pc[c]]]
  /\ Settle(c, Rejected(TopologyDestroyed))
  /\ UNCHANGED <<tokens, users, topology, now, alive, op, arg>>

\* the handler the routes give to then: res.status(200).json(...)
SendResult(c) ==
  /\ alive
  /\ pc[c] = "done" /\ IsResolved(ret[c])
  /\ pc'  = [pc  EXCEPT ![c] = "idle"]
  /\ ret' = [ret EXCEPT ![c] = Response(200, ret[c].value)]
  /\ UNCHANGED <<tokens, users, topology, now, alive, op, arg, loc>>

\* the error-handling middleware: the error is logged, the response 500
\* is sent, and the server is closed and the process left when the test
\* for a dead connection answers true
ErrorHandler(c) ==
  /\ alive
  /\ pc[c] = "done" /\ IsRejected(ret[c])
  /\ pc'  = [pc  EXCEPT ![c] = "idle"]
  /\ ret' = [ret EXCEPT ![c] = Response(500, InternalServerError)]
  /\ alive' = IF InstanceOfMongoError(ret[c].error)
                   /\ SomeMatch(ret[c].error) = "true"
                THEN FALSE
                ELSE alive
  /\ UNCHANGED <<tokens, users, topology, now, op, arg, loc>>

\* one client of the web service, one request at a time, and a connection
\* that may be lost
NextHttp ==
  \/ PostCreateToken(1)
  \/ PostRevokeToken(1)
  \/ PostCheckToken(1)
  \/ GetListTokens(1)
  \/ GenerateToken(1)
  \/ GenerateTokenError(1)
  \/ InsertDone(1)
  \/ RevokeCount(1)
  \/ RevokeNext(1)
  \/ RevokeDone(1)
  \/ ListDone(1)
  \/ ConnectionLost
  \/ TopologyError(1)
  \/ SendResult(1)
  \/ ErrorHandler(1)

SpecHttp == InitOneEach /\ [][NextHttp]_vars

(***************************************************************************)
(* A tokens collection that holds a document nobody created through        *)
(* createToken: the tests of the model insert their fixtures with          *)
(* insertOne, without an expiryTime, and the users of their own.           *)
(***************************************************************************)
\* {user, token, status: TOKEN_STATUS_VALID, hist: [{time, reason}]}
FixtureToken ==
  [_id    |-> 1,
   token  |-> CHOOSE token \in Generated : TRUE,
   status |-> TOKEN_STATUS_VALID,
   hist   |-> <<[time |-> 0, reason |-> <<"t", "e", "s", "t">>]>>,
   user   |-> U1]

\* the users collections of the fixtures: U2 without a record, or with two
FixtureDirectories ==
  { << [_id |-> 1, user |-> U1, groups |-> <<"g5", "g2", "g1">>] >>,
    << [_id |-> 1, user |-> U1, groups |-> <<"g5", "g2", "g1">>],
       [_id |-> 2, user |-> U2, groups |-> <<"g1">>],
       [_id |-> 3, user |-> U2, groups |-> <<"g1", "g5">>] >> }

InitFixture ==
  /\ tokens = <<FixtureToken>>
  /\ users \in FixtureDirectories
  /\ topology = "connected"
  /\ now = 500
  /\ alive = TRUE
  /\ op  = [c \in Calls |-> "none"]
  /\ arg = [c \in Calls |-> NoLocals]
  /\ pc  = [c \in Calls |-> "idle"]
  /\ loc = [c \in Calls |-> NoLocals]
  /\ ret = [c \in Calls |-> Pending]

\* one client making well-formed calls, one call at a time, while time
\* passes, on the collections of the fixtures
NextFixture == Tick \/ StartGood(1) \/ Step(1)

SpecFixture == InitFixture /\ [][NextFixture]_vars

(***************************************************************************)
(* Vocabulary of the properties.                                           *)
(***************************************************************************)
SevenDays == 7 * 24 * 60 * 60 * 1000

UrlSafe ==
  { "A","B","C","D","E","F","G","H","I","J","K","L","M","N","O","P","Q","R",
    "S","T","U","V","W","X","Y","Z","a","b","c","d","e","f","g","h","i","j",
    "k","l","m","n","o","p","q","r","s","t","u","v","w","x","y","z",
    "0","1","2","3","4","5","6","7","8","9","-","_" }

\* a string argument the functions accept
NonBlankString(value) ==
  /\ value.kind = "string"
  /\ \E i \in 1..Len(value.val) : value.val[i] \notin {" ", "\t", "\n"}

\* the positions of the records of a token string
RecordsOf(token) == {i \in 1..Len(tokens) : tokens[i].token = token}

\* the one record of a token string that has exactly one
TheRecord(token) == tokens[CHOOSE i \in RecordsOf(token) : TRUE]

\* call c is running the exported function name
Running(c, name) == op[c] = name /\ pc[c] \notin {"idle", "done"}

\* call c of the exported function name has settled
Settled(c, name) == op[c] = name /\ pc[c] = "done"

\* call c takes a step
Steps(c) == pc'[c] # pc[c]

\* call c is a revoke with well-formed arguments, of a token with exactly
\* one record, made by its owner
OwnerRevoke(c) ==
  /\ Running(c, "revokeToken")
  /\ Cardinality(RecordsOf(arg[c].token.val)) = 1
  /\ TheRecord(arg[c].token.val).user = arg[c].user.val

\* the steps of a revoke that goes through: count, next, findOneAndUpdate,
\* and then the record is REVOKED, its hist one entry longer, the entry
\* carries the reason, and the call answers the record as it now is
RevokeGoesThrough(c) ==
  LET i == CHOOSE i \in RecordsOf(arg[c].token.val) : TRUE IN
    /\ pc[c] = "count" => pc'[c] = "next" /\ tokens' = tokens
    /\ pc[c] = "next"  => pc'[c] = "findOneAndUpdate" /\ tokens' = tokens
    /\ pc[c] = "findOneAndUpdate" =>
         /\ pc'[c] = "done"
         /\ IsResolved(ret'[c])
         /\ Len(tokens') = Len(tokens)
         /\ tokens'[i].status = "revoked"
         /\ Len(tokens'[i].hist) = Len(tokens[i].hist) + 1
         /\ SubSeq(tokens'[i].hist, 1, Len(tokens[i].hist)) = tokens[i].hist
         /\ tokens'[i].hist[Len(tokens'[i].hist)].reason = arg[c].justification.val
         /\ tokens'[i].hist[Len(tokens'[i].hist)].time <= now
         /\ ret'[c].value = tokens'[i]

(***************************************************************************)
(* C1.  For every user and justification that are non-empty strings, when  *)
(* token generation and the insert succeed, createToken answers a record   *)
(* with status VALID, a hist of exactly one entry, the user it was given,  *)
(* an expiryTime 7 days after the creation time the record states, and a   *)
(* token of exactly 32 characters out of letters, digits, '-' and '_'.     *)
(***************************************************************************)
C1_CreateReturnsFreshRecord ==
  \A c \in Calls :
    Settled(c, "createToken") /\ IsResolved(ret[c]) =>
      LET doc == ret[c].value IN
        /\ doc.status = "valid"
        /\ Len(doc.hist) = 1
        /\ doc.user = arg[c].user.val
        /\ doc.hist[1].reason = arg[c].justification.val
        /\ doc.hist[1].time <= now
        /\ doc.expiryTime = doc.hist[1].time + SevenDays
        /\ Len(doc.token) = 32
        /\ \A i \in 1..Len(doc.token) : doc.token[i] \in UrlSafe

\* a create has answered a record whose token holds both '-' and '_',
\* after the clock moved on
C1_Witness ==
  \E c \in Calls :
    /\ Settled(c, "createToken") /\ IsResolved(ret[c])
    /\ \E i, j \in 1..Len(ret[c].value.token) :
         ret[c].value.token[i] = "-" /\ ret[c].value.token[j] = "_"
    /\ ret[c].value.hist[1].time > 0

C3_NonOwnerRevokeRejected ==
  [][\A c \in Calls :
       /\ Running(c, "revokeToken")
       /\ Cardinality(RecordsOf(arg[c].token.val)) = 1
       /\ TheRecord(arg[c].token.val).user # arg[c].user.val
       /\ Steps(c)
       => /\ tokens' = tokens
          /\ pc[c] = "count" => pc'[c] = "next"
          /\ pc[c] = "next"  => /\ pc'[c] = "done"
                                /\ ret'[c] = Rejected("USER_NOT_TOKEN_OWNER")
          /\ pc[c] \in {"count", "next"}]_vars

\* a revoke by another user than the owner has been rejected
C3_Witness ==
  \E c \in Calls :
    /\ Settled(c, "revokeToken")
    /\ ret[c] = Rejected("USER_NOT_TOKEN_OWNER")
    /\ Cardinality(RecordsOf(arg[c].token.val)) = 1
    /\ TheRecord(arg[c].token.val).user # arg[c].user.val

(***************************************************************************)
(* C4.  validateToken answers false whenever the token's record has status *)
(* REVOKED, and whenever the time is after the record's expiryTime, for    *)
(* every groups argument and every users collection (an owner who is a     *)
(* member of all the groups asked for included).  The time is the time at  *)
(* which validateToken looks at the record it has read.                    *)
(***************************************************************************)
C4_RevokedOrExpiredIsFalse ==
  [][\A c \in Calls :
       /\ Running(c, "validateToken")
       /\ Cardinality(RecordsOf(arg[c].token.val)) = 1
       /\ Steps(c)
       => LET doc == TheRecord(arg[c].token.val) IN
            \* a revoked record is never taken as far as the users collection
            /\ doc.status = "revoked" => pc[c] \in {"count", "next"}
            \* and the step that looks at the record answers false
            /\ doc.status = "revoked" \/ now > doc.expiryTime =>
                 /\ pc[c] = "count" => pc'[c] = "next"
                 /\ pc[c] = "next"  => pc'[c] = "done" /\ ret'[c] = Resolved(FALSE)]_vars

\* the groups the one user record of user holds
GroupSet(user) ==
  LET doc == users[CHOOSE i \in 1..Len(users) : users[i].user = user] IN
    IF "groups" \in DOMAIN doc
      THEN {doc.groups[m] : m \in 1..Len(doc.groups)}
      ELSE {}

\* the number of user records of user
UserRecords(user) == Cardinality({i \in 1..Len(users) : users[i].user = user})

\* the elements of a sequence
Range(seq) == {seq[k] : k \in 1..Len(seq)}

\* validate has answered false for a VALID record that has expired, whose
\* owner is a member of all the groups asked for
C4_Witness ==
  \E c \in Calls :
    /\ Settled(c, "validateToken") /\ ret[c] = Resolved(FALSE)
    /\ Cardinality(RecordsOf(arg[c].token.val)) = 1
    /\ TheRecord(arg[c].token.val).status = "valid"
    /\ now > TheRecord(arg[c].token.val).expiryTime
    /\ arg[c].groups.val # <<>>
    /\ UserRecords(TheRecord(arg[c].token.val).user) = 1
    /\ Range(arg[c].groups.val) \subseteq GroupSet(TheRecord(arg[c].token.val).user)

(***************************************************************************)
(* C5.  For a token with exactly one record, VALID and not expired,        *)
(* validateToken(groups, token) yields exactly the outcome (true, false    *)
(* or failure) of validateUser(groups, record.user) on the record's owner. *)
(***************************************************************************)
\* what validateUser(groups, user) yields on the users collection, by the
\* rule of the membership evaluator as the code has it
EvaluateOutcome(groups, user) ==
  IF UserRecords(user) # 1
    THEN Rejected("UNEXPECTED_NUM_DOCS")
    ELSE LET doc == users[CHOOSE i \in 1..Len(users) : users[i].user = user] IN
           Resolved(/\ "groups" \in DOMAIN doc
                    /\ Range(groups) \subseteq GroupSet(user))

C5_ValidateIsEvaluateOfOwner ==
  \A c \in Calls :
    /\ Settled(c, "validateToken")
    /\ arg[c].groups.kind = "array"
    /\ Cardinality(RecordsOf(arg[c].token.val)) = 1
    /\ TheRecord(arg[c].token.val).status = "valid"
    /\ now <= TheRecord(arg[c].token.val).expiryTime
    => ret[c] = EvaluateOutcome(arg[c].groups.val, TheRecord(arg[c].token.val).user)

\* validate has answered true for a VALID, unexpired record
C5_Witness ==
  \E c \in Calls :
    /\ Settled(c, "validateToken") /\ ret[c] = Resolved(TRUE)
    /\ arg[c].groups.val # <<>>
    /\ TheRecord(arg[c].token.val).status = "valid"
    /\ now <= TheRecord(arg[c].token.val).expiryTime

C7_StatusMonotonic ==
  [][/\ Len(tokens') >= Len(tokens)
     /\ \A i \in 1..Len(tokens') :
          /\ tokens'[i].status \in {"valid", "revoked"}
          /\ i > Len(tokens) => tokens'[i].status = "valid"
          /\ i <= Len(tokens) /\ tokens[i].status = "revoked" =>
               tokens'[i].status = "revoked"]_vars

\* a record is REVOKED while another call is in flight
C7_Witness ==
  /\ \E i \in 1..Len(tokens) : tokens[i].status = "revoked"
  /\ \E c \in Calls : pc[c] \notin {"idle", "done"}

(***************************************************************************)
(* C8.  Each token record's hist has at least one entry, the first being   *)
(* the entry createToken wrote (its justification, the creation time the   *)
(* expiryTime is counted from); every step leaves the hist it found as a   *)
(* prefix of the hist it leaves: entries are appended, never changed,      *)
(* reordered or removed.                                                   *)
(***************************************************************************)
C8_HistAppendOnly ==
  [][/\ Len(tokens') >= Len(tokens)
     /\ \A i \in 1..Len(tokens') :
          /\ Len(tokens'[i].hist) >= 1
          /\ i <= Len(tokens) =>
               /\ Len(tokens'[i].hist) >= Len(tokens[i].hist)
               /\ SubSeq(tokens'[i].hist, 1, Len(tokens[i].hist)) = tokens[i].hist
          /\ i > Len(tokens) =>
               \E c \in Calls :
                 /\ op[c] = "createToken" /\ Steps(c)
                 /\ tokens'[i].hist =
                      <<[time   |-> tokens'[i].expiryTime - SevenDays,
                         reason |-> arg[c].justification.val]>>]_vars

\* a record's hist has grown while another call is in flight
C8_Witness ==
  /\ \E i \in 1..Len(tokens) : Len(tokens[i].hist) >= 2
  /\ \E c \in Calls : pc[c] \notin {"idle", "done"}

(***************************************************************************)
(* C9.  For every token record a REVOKE entry is appended exactly once:    *)
(* its hist holds the entry of createToken followed by at most one entry   *)
(* of revokeToken.                                                         *)
(***************************************************************************)
C9_AtMostOneRevokeEntry ==
  \A i \in 1..Len(tokens) : Len(tokens[i].hist) <= 2

(***************************************************************************)
(* C10.  revokeToken by the owner on a token whose record is already       *)
(* REVOKED is not rejected: it goes through again, appends another entry   *)
(* to the hist, and leaves the status REVOKED.                             *)
(***************************************************************************)
C10_RevokeOfRevokedSucceeds ==
  [][\A c \in Calls :
       /\ OwnerRevoke(c)
       /\ TheRecord(arg[c].token.val).status = "revoked"
       /\ Steps(c)
       => /\ pc'[c] = "done" => IsResolved(ret'[c])
          /\ RevokeGoesThrough(c)
          /\ TheRecord(arg[c].token.val)'.status = "revoked"]_vars

\* a second revoke by the owner has answered a record with two entries of
\* revokeToken in its hist
C10_Witness ==
  \E c \in Calls :
    /\ Settled(c, "revokeToken") /\ IsResolved(ret[c])
    /\ ret[c].value.status = "revoked"
    /\ Len(ret[c].value.hist) = 3
    /\ ret[c].value.hist[2].reason = arg[c].justification.val
    /\ ret[c].value.hist[3].reason = arg[c].justification.val

(***************************************************************************)
(* C11.  Two revokeToken calls by the owner that run concurrently on the   *)
(* same token and both read its record while it is still VALID both pass   *)
(* the exactly-one and the owner check and both perform the update: each   *)
(* call is resolved, and when both have answered the record is REVOKED and *)
(* its hist holds the entry of createToken and the entries of both calls   *)
(* (length 3).                                                             *)
(***************************************************************************)
\* call c is a revoke that has read its record, and read it as VALID
ReadAsValid(c) ==
  /\ op[c] = "revokeToken"
  /\ "doc" \in DOMAIN loc[c]
  /\ loc[c].doc.status = "valid"

C11_ConcurrentRevokesBothAppend ==
  \A c, d \in Calls :
    /\ c # d
    /\ ReadAsValid(c) /\ ReadAsValid(d)
    /\ loc[c].doc._id = loc[d].doc._id
    => LET doc == tokens[loc[c].doc._id] IN
         /\ loc[c].doc.user = arg[c].user.val /\ loc[d].doc.user = arg[d].user.val
         /\ pc[c] \in {"findOneAndUpdate", "done"}
         /\ pc[c] = "done" => IsResolved(ret[c]) /\ doc.status = "revoked"
         /\ pc[c] = "done" /\ pc[d] = "done" =>
              /\ doc.status = "revoked"
              /\ Len(doc.hist) = 3
              /\ doc.hist[1] = loc[c].doc.hist[1]
              /\ {doc.hist[2], doc.hist[3]} =
                   {loc[c].update.push.hist, loc[d].update.push.hist}
              /\ Len(ret[c].value.hist) + Len(ret[d].value.hist) = 5

\* both revokes have read the record as VALID, and both have answered
C11_Witness ==
  /\ ReadAsValid(1) /\ ReadAsValid(2)
  /\ loc[1].doc._id = loc[2].doc._id
  /\ Settled(1, "revokeToken") /\ Settled(2, "revokeToken")
  /\ IsResolved(ret[1]) /\ IsResolved(ret[2])
  /\ Len(tokens[loc[1].doc._id].hist) = 3

(***************************************************************************)
(* C12.  revokeToken with well-formed arguments on a token string that has *)
(* no record in the tokens collection is rejected with                     *)
(* UNEXPECTED_NUM_DOCS at its first step, whoever the user is, and leaves  *)
(* the tokens collection as it was.                                        *)
(***************************************************************************)
C12_RevokeOfUnknownTokenRejected ==
  [][\A c \in Calls :
       /\ Running(c, "revokeToken")
       /\ RecordsOf(arg[c].token.val) = {}
       /\ Steps(c)
       => /\ pc[c] = "count"
          /\ pc'[c] = "done"
          /\ ret'[c] = Rejected("UNEXPECTED_NUM_DOCS")
          /\ tokens' = tokens]_vars

\* a revoke of a token string without a record has been rejected, while
\* the collection holds a record of the user under another token string
C12_Witness ==
  \E c \in Calls :
    /\ Settled(c, "revokeToken")
    /\ ret[c] = Rejected("UNEXPECTED_NUM_DOCS")
    /\ RecordsOf(arg[c].token.val) = {}
    /\ \E i \in 1..Len(tokens) : tokens[i].user = arg[c].user.val

(***************************************************************************)
(* C13.  validateToken answers false only for a token that has exactly one *)
(* record and is invalid in meaning: the record is REVOKED, or expired, or *)
(* its owner lacks one of the groups asked for.  For a token string        *)
(* without a record it is rejected with UNEXPECTED_NUM_DOCS (or with the   *)
(* error of the database), never answered false; with malformed arguments  *)
(* or a failing database call it is rejected and answers no boolean.       *)
(***************************************************************************)
\* the arguments of the validateToken call c are well-formed
WellFormedValidate(c) ==
  arg[c].groups.kind = "array" /\ NonBlankString(arg[c].token)

C13_FalseOnlyWhenInvalid ==
  \A c \in Calls :
    Settled(c, "validateToken") =>
      /\ ret[c] = Resolved(FALSE) =>
           /\ WellFormedValidate(c)
           /\ Cardinality(RecordsOf(arg[c].token.val)) = 1
           /\ LET doc == TheRecord(arg[c].token.val) IN
                \/ doc.status = "revoked"
                \/ now > doc.expiryTime
                \/ /\ UserRecords(doc.user) = 1
                   /\ \E k \in 1..Len(arg[c].groups.val) :
                        arg[c].groups.val[k] \notin GroupSet(doc.user)
      /\ WellFormedValidate(c) /\ RecordsOf(arg[c].token.val) = {} =>
           ret[c] \in {Rejected("UNEXPECTED_NUM_DOCS"), Rejected("MongoError")}
      /\ ~WellFormedValidate(c) => IsRejected(ret[c])
      /\ IsResolved(ret[c]) => ret[c].value \in BOOLEAN

(***************************************************************************)
(* C14.  When a string argument of createToken, revokeToken, validateToken *)
(* or validateUser is missing, not a string, empty or blank, or the groups *)
(* of validateToken or validateUser are missing or not an array, the call  *)
(* is rejected with an AssertionError in the step that makes it: it never  *)
(* waits for an answer of the database or of the random source, and the    *)
(* collections are unchanged.                                              *)
(***************************************************************************)
\* the arguments args of a call of the exported function name are malformed
Malformed(name, args) ==
  \/ name \in {"createToken", "revokeToken"} /\ ~NonBlankString(args.user)
  \/ name \in {"createToken", "revokeToken"} /\ ~NonBlankString(args.justification)
  \/ name \in {"revokeToken", "validateToken"} /\ ~NonBlankString(args.token)
  \/ name \in {"validateToken", "validateUser"} /\ args.groups.kind # "array"
  \/ name = "validateUser" /\ ~NonBlankString(args.user)

C14_MalformedRejectedBeforeIO ==
  [][\A c \in Calls :
       /\ op'[c] \in {"createToken", "revokeToken", "validateToken", "validateUser"}
       /\ Malformed(op'[c], arg'[c])
       => /\ pc'[c] = "done"
          /\ ret'[c] = Rejected("AssertionError")
          /\ pc[c] \in {"idle", "done"}
          /\ tokens' = tokens /\ users' = users]_vars

\* a revoke of a VALID record by its owner, with a justification that is
\* missing, has been rejected and the record is still VALID
C14_Witness ==
  \E c \in Calls :
    /\ Settled(c, "revokeToken")
    /\ ret[c] = Rejected("AssertionError")
    /\ NonBlankString(arg[c].user) /\ NonBlankString(arg[c].token)
    /\ arg[c].justification = Undefined
    /\ \E i \in 1..Len(tokens) :
         /\ tokens[i].token = arg[c].token.val
         /\ tokens[i].user = arg[c].user.val
         /\ tokens[i].status = "valid"

(***************************************************************************)
(* C15.  An empty groups requirement is vacuously satisfied: for every     *)
(* token whose single record is VALID and not expired and whose owner has  *)
(* exactly one user record, validateToken([], token) answers true,         *)
(* whatever groups that user record holds: some, none, or no groups field. *)
(***************************************************************************)
C15_EmptyRequirementIsTrue ==
  \A c \in Calls :
    /\ Settled(c, "validateToken")
    /\ arg[c].groups = JsArray(<<>>)
    /\ Cardinality(RecordsOf(arg[c].token.val)) = 1
    /\ TheRecord(arg[c].token.val).status = "valid"
    /\ now <= TheRecord(arg[c].token.val).expiryTime
    /\ UserRecords(TheRecord(arg[c].token.val).user) = 1
    => ret[c] = Resolved(TRUE)

(***************************************************************************)
(* C16.  A user record without a groups field and a user record with an    *)
(* empty groups array both mean 'no memberships': for every groups         *)
(* requirement, the empty one included, validateUser answers for a record  *)
(* of the one kind what it answers for the same record of the other kind.  *)
(***************************************************************************)
\* the one user record of user
UserRecord(user) == users[CHOOSE i \in 1..Len(users) : users[i].user = user]

\* a user record with its groups field removed, and with an empty one
WithoutGroups(doc) == [_id |-> doc._id, user |-> doc.user]
WithEmptyGroups(doc) == [_id |-> doc._id, user |-> doc.user, groups |-> <<>>]

C16_AbsentAndEmptyAgree ==
  \A c \in Calls :
    /\ Settled(c, "validateUser")
    /\ arg[c].groups.kind = "array" /\ NonBlankString(arg[c].user)
    /\ UserRecords(arg[c].user.val) = 1
    /\ GroupSet(arg[c].user.val) = {}
    => /\ IsResolved(ret[c])
       /\ ret[c].value = MemberOfAll(arg[c].groups.val,
                                      WithoutGroups(UserRecord(arg[c].user.val)))
       /\ ret[c].value = MemberOfAll(arg[c].groups.val,
                                      WithEmptyGroups(UserRecord(arg[c].user.val)))

(***************************************************************************)
(* C17.  Round trip: for every user of the directory, a token that         *)
(* createToken has just answered (its record is the only one of its token  *)
(* string and is as created, no time has passed) validates to true when no *)
(* group is required.                                                      *)
(***************************************************************************)
\* the record is as createToken left it, at the instant it was created
Fresh(doc) ==
  /\ doc.status = "valid"
  /\ Len(doc.hist) = 1
  /\ doc.hist[1].time = Format(now)

C17_CreateThenValidateIsTrue ==
  \A c \in Calls :
    /\ Settled(c, "validateToken")
    /\ arg[c].groups = JsArray(<<>>)
    /\ Cardinality(RecordsOf(arg[c].token.val)) = 1
    /\ Fresh(TheRecord(arg[c].token.val))
    /\ UserRecords(TheRecord(arg[c].token.val).user) <= 1
    => ret[c] = Resolved(TRUE)

(***************************************************************************)
(* C18.  listTokens(user) answers exactly the token records whose user is  *)
(* the user given, every one of them once and no record of another user,   *)
(* in an order in which every VALID record precedes every REVOKED one; for *)
(* a user without records it answers the empty sequence, not an error.     *)
(***************************************************************************)
C18_ListIsOwnRecordsValidFirst ==
  \A c \in Calls :
    Settled(c, "listTokens") /\ NonBlankString(arg[c].user) =>
      /\ IsResolved(ret[c])
      /\ LET docs == ret[c].value
             own  == {i \in 1..Len(tokens) : tokens[i].user = arg[c].user.val}
         IN  /\ Len(docs) = Cardinality(own)
             /\ \A i \in own : \E k \in 1..Len(docs) : docs[k] = tokens[i]
             /\ \A k \in 1..Len(docs) : docs[k].user = arg[c].user.val
             /\ \A k, l \in 1..Len(docs) :
                  k < l => ~(docs[k].status = "revoked" /\ docs[l].status = "valid")
             /\ own = {} => docs = <<>>

\* a list has answered a VALID record ahead of a REVOKED one that was
\* inserted before it
C18_Witness ==
  \E c \in Calls :
    /\ Settled(c, "listTokens") /\ IsResolved(ret[c])
    /\ Len(ret[c].value) = 2
    /\ ret[c].value[1].status = "valid"
    /\ ret[c].value[2].status = "revoked"
    /\ ret[c].value[2]._id < ret[c].value[1]._id

\* a list has answered the empty sequence while the collection holds a
\* record of another user
C18_WitnessEmpty ==
  \E c \in Calls :
    /\ Settled(c, "listTokens") /\ ret[c] = Resolved(<<>>)
    /\ tokens # <<>>

(***************************************************************************)
(* C19.  In every reachable state at most one token record exists per      *)
(* token string: no sequence of createToken calls, one whose generated     *)
(* token equals the token of an existing record included, leaves two       *)
(* records with the same token in the collection.                          *)
(***************************************************************************)
C19_OneRecordPerToken ==
  \A i, j \in 1..Len(tokens) :
    tokens[i].token = tokens[j].token => i = j

(***************************************************************************)
(* C20.  The token, user and expiryTime of a token record never change     *)
(* once the record is in the collection: every step of every call leaves   *)
(* these fields of every record as they were.  A record changes only in    *)
(* the last step of a revokeToken of its token string, only in status and  *)
(* hist, and no other record changes in that step.                         *)
(***************************************************************************)
C20_TokenUserExpiryImmutable ==
  [][/\ Len(tokens') >= Len(tokens)
     /\ \A i \in 1..Len(tokens) :
          /\ tokens'[i]._id = tokens[i]._id
          /\ tokens'[i].token = tokens[i].token
          /\ tokens'[i].user = tokens[i].user
          /\ tokens'[i].expiryTime = tokens[i].expiryTime
          /\ tokens'[i] # tokens[i] =>
               /\ \E c \in Calls :
                    /\ op[c] = "revokeToken" /\ pc[c] = "findOneAndUpdate"
                    /\ Steps(c)
                    /\ arg[c].token.val = tokens[i].token
               /\ Len(tokens') = Len(tokens)
               /\ \A j \in 1..Len(tokens) : j # i => tokens'[j] = tokens[j]]_vars

\* one of two records has been revoked, the other is as it was created,
\* and a call is in flight
C20_Witness ==
  /\ Len(tokens) = 2
  /\ \E i, j \in 1..Len(tokens) :
       /\ tokens[i].status = "revoked" /\ Len(tokens[i].hist) = 2
       /\ tokens[j].status = "valid" /\ Len(tokens[j].hist) = 1
  /\ \E c \in Calls : Running(c, "validateToken")

(***************************************************************************)
(* C21.  A createToken that succeeds adds exactly one record to the tokens *)
(* collection, the record it answers, and leaves every record that was     *)
(* there as it was; no other step of a createToken, and so no createToken  *)
(* that fails (arguments, random source, insertOne), changes the           *)
(* collection.                                                             *)
(***************************************************************************)
\* call c does something in this step
Acts(c) ==
  <<op[c], arg[c], pc[c], loc[c], ret[c]>>' # <<op[c], arg[c], pc[c], loc[c], ret[c]>>

C21_CreateAddsExactlyItsRecord ==
  [][\A c \in Calls :
       op'[c] = "createToken" /\ Acts(c) =>
         IF pc'[c] = "done" /\ IsResolved(ret'[c])
           THEN /\ pc[c] = "insertOne"
                /\ tokens' = Append(tokens, ret'[c].value)
           ELSE tokens' = tokens]_vars

\* a create has answered the second record of the collection, the first
\* having been revoked before
C21_Witness ==
  \E c \in Calls :
    /\ Settled(c, "createToken") /\ IsResolved(ret[c])
    /\ Len(tokens) = 2
    /\ tokens[2] = ret[c].value
    /\ tokens[1].status = "revoked"

\* a create whose insertOne failed has been rejected, and the collection
\* holds the one record it held
C21_WitnessFailed ==
  \E c \in Calls :
    /\ Settled(c, "createToken") /\ ret[c] = Rejected("MongoError")
    /\ Len(tokens) = 1

(***************************************************************************)
(* C22.  validateToken, validateUser and listTokens only read: whatever    *)
(* their outcome and whatever other calls are in flight, no step of theirs *)
(* changes the tokens collection or the users collection.                  *)
(***************************************************************************)
C22_ReadersChangeNothing ==
  [][\A c \in Calls :
       op'[c] \in {"validateToken", "validateUser", "listTokens"} /\ Acts(c)
       => tokens' = tokens /\ users' = users]_vars

\* a validate, an evaluate or a list has answered while a revoke of the
\* other client is about to write
C22_Witness ==
  \E c, d \in Calls :
    /\ c # d
    /\ pc[c] = "done" /\ IsResolved(ret[c])
    /\ op[c] \in {"validateToken", "validateUser", "listTokens"}
    /\ op[d] = "revokeToken" /\ pc[d] = "findOneAndUpdate"

(***************************************************************************)
(* C23.  No call deletes a token record or writes to a user record: in     *)
(* every step the records that were in the tokens collection are still in  *)
(* it (by _id, at their place), the set of token strings in it only grows, *)
(* and the users collection is unchanged.                                  *)
(***************************************************************************)
\* the token strings in a collection
TokenStrings(collection) == {collection[i].token : i \in 1..Len(collection)}

C23_NoDeleteNoUserWrite ==
  [][/\ TokenStrings(tokens) \subseteq TokenStrings(tokens')
     /\ Len(tokens') >= Len(tokens)
     /\ \A i \in 1..Len(tokens) : tokens'[i]._id = tokens[i]._id
     /\ users' = users]_vars

\* the collection holds records of two token strings, one of them revoked
C23_Witness ==
  /\ Cardinality(TokenStrings(tokens)) = 2
  /\ \E i \in 1..Len(tokens) : tokens[i].status = "revoked"
  /\ \A c \in Calls : pc[c] = "done"

(***************************************************************************)
(* C24.  When a call of the database made by a function fails, the         *)
(* function's promise is rejected with that error in the same step, the    *)
(* failed call is not made again and no later call of the chain is made:   *)
(* a createToken whose insertOne fails answers the error and no record,    *)
(* and a revokeToken whose count or next fails performs no update.         *)
(***************************************************************************)
\* a call of the database made by call c has failed
StoreCallFailed(c) == "failed" \in DOMAIN loc[c]

C24_StoreFailureRejectsOnce ==
  [][\A c \in Calls :
       StoreCallFailed(c)' =>
         /\ pc'[c] = "done"
         /\ ret'[c] = Rejected("MongoError")
         /\ Acts(c) => /\ pc[c] = loc'[c].failed
                       /\ tokens' = tokens /\ users' = users]_vars

\* the next() of an owner's revoke of a VALID record has failed: the call
\* is rejected and the record is still VALID
C24_Witness ==
  \E c \in Calls :
    /\ Settled(c, "revokeToken") /\ StoreCallFailed(c)
    /\ loc[c].failed = "next"
    /\ Cardinality(RecordsOf(arg[c].token.val)) = 1
    /\ TheRecord(arg[c].token.val).user = arg[c].user.val
    /\ TheRecord(arg[c].token.val).status = "valid"

\* the insertOne of a create has failed: the call is rejected and the
\* collection is empty
C24_WitnessCreate ==
  \E c \in Calls :
    /\ Settled(c, "createToken") /\ StoreCallFailed(c)
    /\ loc[c].failed = "insertOne"
    /\ IsRejected(ret[c])
    /\ tokens = <<>>

(***************************************************************************)
(* C25.  When crypto.randomBytes reports an error, the createToken call is *)
(* rejected towards its caller with that error, no token is generated      *)
(* again and no record is inserted, and the service goes on serving:       *)
(* the failure ends that call, not the process.                            *)
(***************************************************************************)
C25_RandomFailureEndsOnlyTheCall ==
  [][\A c \in Calls :
       ret'[c] = Rejected("RandomSourceError") /\ Acts(c) =>
         /\ pc[c] = "randomBytes"
         /\ pc'[c] = "done"
         /\ tokens' = tokens
         /\ alive']_vars

(***************************************************************************)
(* C26.  Every hist entry records time, operating user, operation (CREATE  *)
(* or REVOKE) and reason: the first entry of a record, written by          *)
(* createToken, has operation CREATE and the record's user as operating    *)
(* user; every later entry, written by revokeToken, has operation REVOKE   *)
(* and the revoking user, who is the record's user, as operating user.     *)
(***************************************************************************)
C26_HistEntriesNameUserAndOperation ==
  \A i \in 1..Len(tokens) :
    \A k \in 1..Len(tokens[i].hist) :
      LET entry == tokens[i].hist[k] IN
        /\ {"time", "operating_user", "operation", "reason"} \subseteq DOMAIN entry
        /\ entry.operating_user = tokens[i].user
        /\ entry.operation = IF k = 1 THEN "CREATE" ELSE "REVOKE"

(***************************************************************************)
(* C27.  If the connection to the database fails when the module is        *)
(* loaded, no request is served: every createToken, revokeToken,           *)
(* listTokens, validateToken and validateUser call with well-formed        *)
(* arguments that settles is rejected, none answers a record, a list or a  *)
(* boolean, and no record is ever inserted.                                *)
(***************************************************************************)
C27_NoConnectionNothingServed ==
  /\ tokens = <<>>
  /\ \A c \in Calls :
       /\ ~IsResolved(ret[c])
       /\ pc[c] = "done" => ret[c] = Rejected(FirstConnectError)
       /\ pc[c] \notin {"next", "findOneAndUpdate", "userNext"}

\* a create whose token was generated and a validate have both been
\* rejected with the error of the connection
C27_Witness ==
  \E c, d \in Calls :
    /\ Settled(c, "createToken") /\ ret[c] = Rejected(FirstConnectError)
    /\ "doc" \in DOMAIN loc[c]
    /\ Settled(d, "validateToken") /\ ret[d] = Rejected(FirstConnectError)

(***************************************************************************)
(* C29.  When two or more records share a token string, every revokeToken  *)
(* and every validateToken on that token is rejected with                  *)
(* UNEXPECTED_NUM_DOCS at its exactly-one check and changes no record,     *)
(* whoever the caller is; and since no step removes a record, the token    *)
(* string stays shared: it can never be revoked or validated again.        *)
(***************************************************************************)
C29_SharedTokenIsRejected ==
  [][/\ \A c \in Calls :
          /\ op[c] \in {"revokeToken", "validateToken"}
          /\ pc[c] = "count"
          /\ Cardinality(RecordsOf(arg[c].token.val)) >= 2
          /\ Acts(c)
          => /\ pc'[c] = "done"
             /\ ret'[c] = Rejected("UNEXPECTED_NUM_DOCS")
             /\ tokens' = tokens
     /\ \A token \in TokenStrings(tokens) :
          Cardinality(RecordsOf(token)) >= 2 =>
            Cardinality(RecordsOf(token)') >= 2]_vars

\* the owner's revoke of a token string that two VALID records of theirs
\* share has been rejected
C29_Witness ==
  \E c \in Calls :
    /\ Settled(c, "revokeToken")
    /\ ret[c] = Rejected("UNEXPECTED_NUM_DOCS")
    /\ Cardinality(RecordsOf(arg[c].token.val)) = 2
    /\ \A i \in RecordsOf(arg[c].token.val) :
         tokens[i].user = arg[c].user.val /\ tokens[i].status = "valid"

\* what validateToken(groups, token) would do in the present state: it
\* answers a boolean when the token has one record and, if that record is
\* valid and not expired, its user has one record too
ValidateAnswers(groups, token) ==
  /\ CursorCount(tokens, "token", token) = 1
  /\ LET doc == CursorNext(tokens, "token", token) IN
       \/ doc.status = TOKEN_STATUS_REVOKED
       \/ Expired(doc, now)
       \/ CursorCount(users, "user", UserToValidate(doc)) = 1

\* ... and the boolean it answers
ValidateDecision(groups, token) ==
  LET doc == CursorNext(tokens, "token", token) IN
    IF doc.status = TOKEN_STATUS_REVOKED \/ Expired(doc, now)
      THEN FALSE
      ELSE MemberOfAll(groups, CursorNext(users, "user", UserToValidate(doc)))

\* C28: when a request fails with an error of the driver that signals a
\* dead connection, the service answers it with an error and stops: the
\* step that answers the request closes the server and ends the process,
\* so that no request arriving afterwards is served.
C28_DeadConnectionStopsTheService ==
  [][\A c \in Calls :
       (/\ pc[c] = "done"
        /\ IsRejected(ret[c])
        /\ ret[c].error \in connIsDeadErrs
        /\ IsResponse(ret'[c]))
       => (ret'[c].status = 500 /\ ~alive')]_vars

\* C30: a checkToken request with the body {token, groups} is answered
\* 200 {ok: d}, d the boolean validateToken(groups, token) answers in the
\* same state of the store, and is answered with an error only when
\* validateToken itself fails.
C30_CheckTokenAnswersTheDecision ==
  \A c \in Calls :
    (op[c] = "checkToken" /\ IsResponse(ret[c]))
    => IF ValidateAnswers(arg[c].groups.val, arg[c].token.val)
         THEN /\ ret[c].status = 200
              /\ ret[c].body = [ok |-> ValidateDecision(arg[c].groups.val,
                                                        arg[c].token.val)]
         ELSE ret[c].status = 500

\* C31: expiry is strict.  When validateToken looks at a VALID record, it
\* answers false for expiry only if the clock is strictly after the
\* expiryTime of the record: at the instant of expiry itself, and for a
\* record without expiryTime at any instant, it goes on to the membership
\* of the record's user.
C31_ExpiryIsStrict ==
  [][\A c \in Calls :
       (/\ op[c] = "validateToken"
        /\ pc[c] = "next"
        /\ Acts(c)
        /\ CursorNext(tokens, "token", arg[c].token.val).status = TOKEN_STATUS_VALID)
       => LET doc == CursorNext(tokens, "token", arg[c].token.val) IN
            IF HasExpiryTime(doc) /\ now > doc.expiryTime
              THEN pc'[c] = "done" /\ ret'[c] = Resolved(FALSE)
              ELSE pc'[c] = "userCount" /\ loc'[c].user = doc.user]_vars

\* a validate of a VALID record has gone on to the user's membership at
\* the instant the record expires
C31_Witness ==
  \E c \in Calls :
    /\ op[c] = "validateToken" /\ pc[c] = "userCount"
    /\ LET doc == CursorNext(tokens, "token", arg[c].token.val) IN
         /\ doc.status = TOKEN_STATUS_VALID
         /\ HasExpiryTime(doc)
         /\ doc.expiryTime = now

\* ... and of a VALID record without expiryTime, more than seven days
\* after the start
C31_WitnessNoExpiryTime ==
  \E c \in Calls :
    /\ op[c] = "validateToken" /\ pc[c] = "userCount"
    /\ LET doc == CursorNext(tokens, "token", arg[c].token.val) IN
         /\ doc.status = TOKEN_STATUS_VALID
         /\ ~HasExpiryTime(doc)
    /\ now > ValidDuration

\* C32: validateToken looks at the status and the expiry of the record
\* before it asks for the user: the users collection is read only for a
\* VALID record that has not expired, and for a REVOKED or expired record
\* the answer is false, never UNEXPECTED_NUM_DOCS, also when the owner
\* has no user record or several.
C32_DirectoryOnlyForValidUnexpired ==
  [][\A c \in Calls :
       (op[c] = "validateToken" /\ Acts(c) /\ op'[c] = "validateToken")
       => /\ pc[c] = "next" =>
               LET doc == CursorNext(tokens, "token", arg[c].token.val) IN
                 /\ (doc.status = TOKEN_STATUS_REVOKED \/ Expired(doc, now))
                      => pc'[c] = "done" /\ ret'[c] = Resolved(FALSE)
                 /\ pc'[c] = "userCount"
                      => doc.status = TOKEN_STATUS_VALID /\ ~Expired(doc, now)
          /\ (pc'[c] = "userCount" /\ pc[c] # "userCount") => pc[c] = "next"
          /\ pc'[c] = "userNext" => pc[c] = "userCount"]_vars

\* validate has answered false for a REVOKED record whose owner has no
\* user record
C32_Witness ==
  \E c \in Calls :
    /\ Settled(c, "validateToken") /\ ret[c] = Resolved(FALSE)
    /\ LET doc == CursorNext(tokens, "token", arg[c].token.val) IN
         /\ doc.status = TOKEN_STATUS_REVOKED
         /\ UserRecords(doc.user) = 0

\* ... and for a VALID record that has expired, whose owner has two
C32_WitnessSeveral ==
  \E c \in Calls :
    /\ Settled(c, "validateToken") /\ ret[c] = Resolved(FALSE)
    /\ LET doc == CursorNext(tokens, "token", arg[c].token.val) IN
         /\ doc.status = TOKEN_STATUS_VALID
         /\ Expired(doc, now)
         /\ UserRecords(doc.user) = 2

\* the record a query for the token string answers first is REVOKED: a
\* revoke of the token has completed
RevokeCompleted(token) ==
  /\ FirstIndex(tokens, token) # 0
  /\ tokens[FirstIndex(tokens, token)].status = TOKEN_STATUS_REVOKED

\* C33: under every interleaving of two clients' calls, a revoke that
\* resolves leaves the token revoked for good, and a validateToken that
\* has not read the record by then (so every one that starts afterwards)
\* never goes on to the membership of the user: it answers false or is
\* rejected, never true.
C33_NoTrueAfterRevoke ==
  [][/\ \A d \in Calls :
          (/\ op[d] = "revokeToken" /\ pc[d] = "findOneAndUpdate"
           /\ pc'[d] = "done" /\ IsResolved(ret'[d]))
          => RevokeCompleted(arg[d].token.val)'
     /\ \A token \in TokenStrings(tokens) :
          RevokeCompleted(token) => RevokeCompleted(token)'
     /\ \A c \in Calls :
          (/\ op[c] = "validateToken"
           /\ pc[c] \in {"count", "next"}
           /\ Acts(c)
           /\ RevokeCompleted(arg[c].token.val))
          => /\ pc'[c] \in {"next", "done"}
             /\ pc'[c] = "done" =>
                  ret'[c] \in {Resolved(FALSE), Rejected(UNEXPECTED_NUM_DOCS)}
     /\ \A c \in Calls :
          (op'[c] = "validateToken" /\ Acts(c) /\ pc[c] \in {"idle", "done"})
          => pc'[c] \in {"count", "done"} /\ ret'[c] # Resolved(TRUE)]_vars

\* one client's revoke of a token has resolved, and the other's validate of
\* it, for groups the owner is a member of, has read the REVOKED record
\* and answered false
C33_Witness ==
  \E c, d \in Calls :
    /\ Settled(d, "revokeToken") /\ IsResolved(ret[d])
    /\ Settled(c, "validateToken") /\ ret[c] = Resolved(FALSE)
    /\ arg[c].token = arg[d].token
    /\ RevokeCompleted(arg[c].token.val)
    /\ UserRecords(tokens[FirstIndex(tokens, arg[c].token.val)].user) = 1
    /\ GroupSet(tokens[FirstIndex(tokens, arg[c].token.val)].user)
         = {"g1", "g2", "g5"}

\* a validate that had read the record before the update answers true
\* after the revoke has resolved
C33_WitnessStartedBefore ==
  \E c, d \in Calls :
    /\ Settled(d, "revokeToken") /\ IsResolved(ret[d])
    /\ Settled(c, "validateToken") /\ ret[c] = Resolved(TRUE)
    /\ arg[c].token = arg[d].token
    /\ RevokeCompleted(arg[c].token.val)

\* C34: only the owner revokes.  Under every interleaving of two clients'
\* calls, a step that changes a record of the tokens collection is the
\* step in which the findOneAndUpdate of a revokeToken call answers, the
\* user argument of that call is the user of the record, and the change
\* is status REVOKED and one more entry of hist.
C34_OnlyOwnerChangesRecord ==
  [][\A i \in 1..Len(tokens) :
       tokens'[i] # tokens[i]
       => \E c \in Calls :
            /\ op[c] = "revokeToken" /\ pc[c] = "findOneAndUpdate"
            /\ pc'[c] = "done"
            /\ arg[c].user.val = tokens[i].user
            /\ arg[c].token.val = tokens[i].token
            /\ tokens'[i].status = TOKEN_STATUS_REVOKED
            /\ Len(tokens'[i].hist) = Len(tokens[i].hist) + 1
            /\ tokens'[i].user = tokens[i].user]_vars

\* the owner's revoke of a token has resolved and another user's revoke
\* of the same token has been rejected: the record has the one entry of
\* the owner's revoke after that of its creation
C34_Witness ==
  \E c, d \in Calls :
    /\ Settled(d, "revokeToken") /\ IsResolved(ret[d])
    /\ Settled(c, "revokeToken") /\ ret[c] = Rejected(USER_NOT_TOKEN_OWNER)
    /\ arg[c].token = arg[d].token
    /\ arg[c].user # arg[d].user
    /\ \E i \in 1..Len(tokens) :
         /\ tokens[i].token = arg[d].token.val
         /\ tokens[i].user = arg[d].user.val
         /\ tokens[i].status = TOKEN_STATUS_REVOKED
         /\ Len(tokens[i].hist) = 2

\* C35: listTokens applies to user the rule createToken and revokeToken
\* apply: a call of listTokens with a user that createToken rejects
\* (missing, not a string, empty, or blank) is rejected with an
\* AssertionError in the step that makes it, before the collection is
\* read.
C35_ListRejectsWhatCreateRejects ==
  [][\A c \in Calls :
       (/\ op'[c] = "listTokens"
        /\ Acts(c)
        /\ pc[c] \in {"idle", "done"}
        /\ ~_validateNoEmptyString(arg'[c].user, "string"))
       => /\ pc'[c] = "done"
          /\ ret'[c] = Rejected("AssertionError")]_vars

====
